---- MODULE Spec2Model ----
(***************************************************************************)
(* Model of the ping supervisor of src-tauri/src/lib.rs: the PingManager   *)
(* registry (a mutex-protected map server_id -> PingProcess), the          *)
(* toggle_ping and stop_all_pings commands, the reader thread started by   *)
(* toggle_ping for every session, and the external ping processes.         *)
(*                                                                         *)
(* Text is modelled as sequences of one-character strings, so that the     *)
(* address whitelist and the line parser are computed character by         *)
(* character as the code does.                                             *)
(***************************************************************************)
EXTENDS Integers, Sequences, FiniteSets, TLC

(***************************************************************************)
(* Bounds of the model.                                                    *)
(***************************************************************************)
\* Number of ping processes that can be spawned in one behaviour.
MaxSessions == 2
\* Number of output lines one ping process can write before it exits.
MaxLines == 2

\* Threads of the host that invoke the two commands.
Callers == {"c1", "c2"}
\* server_id values the host passes.
ServerIds == {"s1", "s2"}
\* count values the host passes.
Counts == {1, 4}

\* The scenarios explored.  A scenario fixes which host threads invoke
\* commands, which targets they name and how many lines a ping can print
\* before it exits:
\*   race     both threads call concurrently on one target, the pings print
\*            MaxLines - 2 lines;
\*   targets  one thread works on two targets, MaxLines - 1 lines;
\*   stream   one thread, one target, MaxLines lines.
\* Every behaviour stays in the scenario it starts in.
Scenarios ==
    { [name |-> "race", callers |-> Callers, ids |-> {"s1"}, lines |-> MaxLines - 2],
      [name |-> "targets", callers |-> {"c1"}, ids |-> ServerIds, lines |-> MaxLines - 1],
      [name |-> "stream", callers |-> {"c1"}, ids |-> {"s1"}, lines |-> MaxLines] }

Sessions == 1..MaxSessions
\* "no session": the None of HashMap::remove, and an unused slot of a call.
NoSession == 0

(***************************************************************************)
(* Characters.                                                             *)
(***************************************************************************)
Digits == {"0", "1", "2", "3", "4", "5", "6", "7", "8", "9"}
LowerLetters == <<"a", "b", "c", "d", "e", "f", "g", "h", "i", "j", "k", "l", "m",
                  "n", "o", "p", "q", "r", "s", "t", "u", "v", "w", "x", "y", "z">>
UpperLetters == <<"A", "B", "C", "D", "E", "F", "G", "H", "I", "J", "K", "L", "M",
                  "N", "O", "P", "Q", "R", "S", "T", "U", "V", "W", "X", "Y", "Z">>
Range(f) == {f[i] : i \in DOMAIN f}

\* char::is_alphanumeric on the characters of the model.
IsAlphanumeric(c) == c \in Digits \cup Range(LowerLetters) \cup Range(UpperLetters)

\* Regex class \d.
IsDigit(c) == c \in Digits

\* Regex class \s.
IsSpace(c) == c \in {" ", "\t"}

\* char lowercase mapping used by str::to_lowercase.
LowerChar(c) ==
    IF \E i \in DOMAIN UpperLetters : UpperLetters[i] = c
    THEN LowerLetters[CHOOSE i \in DOMAIN UpperLetters : UpperLetters[i] = c]
    ELSE c

\* str::to_lowercase.
ToLowercase(line) == [i \in DOMAIN line |-> LowerChar(line[i])]

\* True when the characters of pat occur in line starting at position i.
StartsAt(line, i, pat) ==
    /\ i >= 1
    /\ i + Len(pat) - 1 <= Len(line)
    /\ \A k \in 1..Len(pat) : line[i + k - 1] = pat[k]

\* str::contains.
Contains(line, pat) == \E i \in 1..(Len(line) + 1) : StartsAt(line, i, pat)

(***************************************************************************)
(* The address whitelist of toggle_ping (lib.rs line 108).                 *)
(***************************************************************************)
AddressCharOk(c) == IsAlphanumeric(c) \/ c = "." \/ c = "-" \/ c = ":"

\* A whitelist that forgets to reject the characters that separate shell words.
AddressValidLax(address) ==
    \A i \in DOMAIN address : address[i] # "/"

AddressValid(address) ==
    \A i \in DOMAIN address : AddressCharOk(address[i])

Addr8888 == <<"8", ".", "8", ".", "8", ".", "8">>
AddrInject == <<"8", ".", "8", ".", "8", ".", "8", ";", " ", "r", "m", " ",
                "-", "r", "f", " ", "/">>
AddrV6Host == <<"f", "e", "8", "0", ":", ":", "1", "-", "a">>
AddrSpace == <<"a", " ", "b">>
Addresses == {Addr8888, AddrInject, AddrV6Host, AddrSpace}

(***************************************************************************)
(* parse_ping_line and is_timeout_line.                                    *)
(***************************************************************************)
RECURSIVE SkipWhile(_, _, _)
\* First position >= i of line whose character is not in class cls
\* (Len(line) + 1 when there is none): a greedy star.
\* cls is "d" for \d and "s" for \s.
SkipWhile(line, i, cls) ==
    IF i > Len(line) THEN i
    ELSE IF (cls = "d" /\ IsDigit(line[i])) \/ (cls = "s" /\ IsSpace(line[i]))
         THEN SkipWhile(line, i + 1, cls)
         ELSE i

TimeWord == <<"t", "i", "m", "e">>
MsWord == <<"m", "s">>

\* re_unix  time[=<](\d+\.?\d*)\s*ms  tried at position i: <<from, to>> of
\* capture group 1, or <<0, 0>> when the pattern does not match there.
UnixMatchAt(line, i) ==
    IF ~(StartsAt(line, i, TimeWord) /\ i + 4 <= Len(line) /\ line[i + 4] \in {"=", "<"})
    THEN <<0, 0>>
    ELSE LET d1 == SkipWhile(line, i + 5, "d")
             dot == IF d1 <= Len(line) /\ line[d1] = "." THEN d1 + 1 ELSE d1
             d2 == SkipWhile(line, dot, "d")
             ws == SkipWhile(line, d2, "s")
             \* without the optional dot (the regex backtracks to this)
             ws0 == SkipWhile(line, d1, "s")
         IN  IF d1 = i + 5 THEN <<0, 0>>
             ELSE IF StartsAt(line, ws, MsWord) THEN <<i + 5, d2 - 1>>
             ELSE IF StartsAt(line, ws0, MsWord) THEN <<i + 5, d1 - 1>>
             ELSE <<0, 0>>

\* re_windows  time[=<](\d+)\s*ms  tried at position i.
WindowsMatchAt(line, i) ==
    IF ~(StartsAt(line, i, TimeWord) /\ i + 4 <= Len(line) /\ line[i + 4] \in {"=", "<"})
    THEN <<0, 0>>
    ELSE LET d1 == SkipWhile(line, i + 5, "d")
             ws == SkipWhile(line, d1, "s")
         IN  IF d1 = i + 5 THEN <<0, 0>>
             ELSE IF StartsAt(line, ws, MsWord) THEN <<i + 5, d1 - 1>>
             ELSE <<0, 0>>

\* Regex::captures: the leftmost match of the line.
UnixCaptures(line) ==
    LET hits == {i \in 1..Len(line) : UnixMatchAt(line, i) # <<0, 0>>}
    IN  IF hits = {} THEN <<0, 0>>
        ELSE UnixMatchAt(line, CHOOSE i \in hits : \A j \in hits : i <= j)

WindowsCaptures(line) ==
    LET hits == {i \in 1..Len(line) : WindowsMatchAt(line, i) # <<0, 0>>}
    IN  IF hits = {} THEN <<0, 0>>
        ELSE WindowsMatchAt(line, CHOOSE i \in hits : \A j \in hits : i <= j)

DigitValue(c) == CHOOSE n \in 0..9 : <<"0", "1", "2", "3", "4", "5", "6", "7", "8", "9">>[n + 1] = c

\* Number of decimal places kept of a latency: time_ms is held in thousandths.
FracDigits == 3

RECURSIVE Pow10(_)
Pow10(n) == IF n = 0 THEN 1 ELSE 10 * Pow10(n - 1)

RECURSIVE DigitsValue(_, _, _)
\* Value of the digit run text[from..to] (0 for an empty run).
DigitsValue(text, from, to) ==
    IF from > to THEN 0
    ELSE DigitsValue(text, from, to - 1) * 10 + DigitValue(text[to])

\* str::parse::<f64> of the captured text text[from..to] (digits, an optional
\* dot, digits), in thousandths of a millisecond.
ParseDecimal(text, from, to) ==
    LET dots == {k \in from..to : text[k] = "."}
        dot == IF dots = {} THEN to + 1 ELSE CHOOSE k \in dots : TRUE
        last == IF to < dot + FracDigits THEN to ELSE dot + FracDigits
    IN  DigitsValue(text, from, dot - 1) * Pow10(FracDigits)
        + DigitsValue(text, dot + 1, last) * Pow10(FracDigits - (last - dot))

NoneF64 == -1

\* parse_ping_line: Some(time in thousandths of a ms) or NoneF64.
parse_ping_line(line) ==
    LET u == UnixCaptures(line)
        w == WindowsCaptures(line)
    IN  IF u # <<0, 0>> THEN ParseDecimal(line, u[1], u[2])
        ELSE IF w # <<0, 0>> THEN ParseDecimal(line, w[1], w[2])
        ELSE NoneF64

PhraseTimedOut == <<"r", "e", "q", "u", "e", "s", "t", " ", "t", "i", "m", "e", "d", " ", "o", "u", "t">>
PhraseTimeout == <<"r", "e", "q", "u", "e", "s", "t", " ", "t", "i", "m", "e", "o", "u", "t">>
PhraseLoss == <<"1", "0", "0", "%", " ", "p", "a", "c", "k", "e", "t", " ", "l", "o", "s", "s">>
PhraseHost == <<"d", "e", "s", "t", "i", "n", "a", "t", "i", "o", "n", " ", "h", "o", "s", "t", " ",
                "u", "n", "r", "e", "a", "c", "h", "a", "b", "l", "e">>
PhraseNet == <<"n", "e", "t", "w", "o", "r", "k", " ", "i", "s", " ",
               "u", "n", "r", "e", "a", "c", "h", "a", "b", "l", "e">>

\* is_timeout_line.
is_timeout_line(line) ==
    LET lower == ToLowercase(line)
    IN  \/ Contains(lower, PhraseTimedOut)
        \/ Contains(lower, PhraseTimeout)
        \/ Contains(lower, PhraseLoss)
        \/ Contains(lower, PhraseHost)
        \/ Contains(lower, PhraseNet)

(***************************************************************************)
(* Output of a ping process: the items BufRead::lines yields, each an      *)
(* io::Result<String>.                                                     *)
(***************************************************************************)
OkLine(text) == [ok |-> TRUE, text |-> text]
\* A line that BufRead::lines yields as Err (not valid UTF-8).
ErrLine == [ok |-> FALSE, text |-> <<>>]
\* The pipe between a process and its reader holds the lines written and not
\* yet read, each with its ordinal n in the output of the process.
Written(n, item) == [n |-> n, item |-> item]
\* The reader holds no line.
NoLine == Written(0, ErrLine)

\* The reader takes the newest line of the pipe instead of the oldest.
PipeNextNewest(pipe) == pipe[Len(pipe)]
\* BufReader::lines: the next line is the oldest one unread, and the rest
\* stays for later.
PipeNext(pipe) == Head(pipe)
PipeRest(pipe) == Tail(pipe)

LineUnix == OkLine(<<"s", "e", "q", "=", "1", " ", "t", "i", "m", "e", "=", "1", "2", ".", "3", " ", "m", "s">>)
LineWindows == OkLine(<<"t", "i", "m", "e", "=", "4", "5", "m", "s", " ", "T", "T", "L", "=", "6", "4">>)
LineTimedOut == OkLine(<<"R", "e", "q", "u", "e", "s", "t", " ", "t", "i", "m", "e", "d", " ", "o", "u", "t", ".">>)
LineBanner == OkLine(<<"P", "I", "N", "G", " ", "8", ".", "8", ".", "8", ".", "8">>)
OutputLines == {LineUnix, LineWindows, LineTimedOut, LineBanner, ErrLine}

\* What ping prints for each target, line after line (the script is repeated
\* when a process writes more lines than it has).  A process can stop after
\* any line.  The reader's control flow does not depend on the text of a
\* line, only the sample it emits does, so one script per target is enough
\* to have every kind of line read.
PingOutput(server_id) ==
    IF server_id = "s1" THEN <<LineUnix, LineTimedOut, LineBanner>>
    ELSE <<ErrLine, LineWindows, LineTimedOut>>
\* The n-th line (n >= 1) a ping of server_id prints.
OutputLine(server_id, n) ==
    PingOutput(server_id)[((n - 1) % Len(PingOutput(server_id))) + 1]

(***************************************************************************)
(* Events handed to AppHandle::emit.  line is the ordinal, within the      *)
(* session's output, of the line a sample was made from (0 for a terminal  *)
(* event); it is bookkeeping of the model, not part of the payload.        *)
(***************************************************************************)
PingResult(server_id, time_ms, n) ==
    [name |-> "ping-result", server_id |-> server_id, time_ms |-> time_ms, line |-> n]
PingTimeout(server_id, n) ==
    [name |-> "ping-timeout", server_id |-> server_id, time_ms |-> NoneF64, line |-> n]
PingEvent(name, server_id) ==
    [name |-> name, server_id |-> server_id, time_ms |-> NoneF64, line |-> 0]

VARIABLES
    env,        \* the scenario of this behaviour (never changes)
    processes,  \* PingManager.processes: server_id -> session (NoSession: no entry)
    lock,       \* holder of the mutex around PingManager.processes, or "free"
    sess,       \* every ping process spawned so far, with its flag, pipe and reader
    nextSess,   \* number of the next process to spawn
    call        \* the command each caller thread is executing

vars == <<env, processes, lock, sess, nextSess, call>>

\* A slot of sess before its process is spawned.  flag_lock is the holder of
\* the mutex around stop_flag: "free", "reader" or a caller.
FreshSession ==
    [spawned |-> FALSE, server_id |-> "-", stop_flag |-> FALSE, flag_lock |-> "free",
     alive |-> FALSE, killed |-> FALSE, registered |-> FALSE, stdout |-> <<>>, written |-> 0,
     reader |-> "none", line |-> NoLine, events |-> <<>>]

\* A caller thread outside any command.  address is held from the entry of
\* toggle_ping until the stop path locks the flag or cmd.spawn() consumes
\* the command (a rejected call holds it to its return); count only goes
\* into the command line of the process.
\* process is the PingProcess a stop is working on, child the process this
\* call spawned, todo the entries the drain iterator has still to yield,
\* snap the sessions stop_all_pings found in the registry.
IdleCall ==
    [pc |-> "idle", op |-> "none", server_id |-> "-", address |-> <<>>,
     process |-> NoSession, child |-> NoSession, todo |-> {}, snap |-> {},
     ret |-> "none"]

Init ==
    /\ env \in Scenarios
    /\ processes = [k \in ServerIds |-> NoSession]
    /\ lock = "free"
    /\ sess = [s \in Sessions |-> FreshSession]
    /\ nextSess = 1
    /\ call = [c \in Callers |-> IdleCall]

(***************************************************************************)
(* HashMap operations on the registry.                                     *)
(***************************************************************************)
\* HashMap::insert: the value replaces any value already under the key.
MapInsert(map, k, v) == [map EXCEPT ![k] = v]
\* A remove that leaves the entry in the map.
MapRemoveKeeps(map, k) == map
\* A remove that empties the whole map.
MapRemoveAll(map, k) == [j \in DOMAIN map |-> NoSession]
\* HashMap::remove.
MapRemove(map, k) == [map EXCEPT ![k] = NoSession]
\* A map that drops nothing when drained.
MapDrainKeeps(map) == map
\* HashMap::drain, once its iterator is consumed and dropped.
MapDrain(map) == [k \in DOMAIN map |-> NoSession]
MapKeys(map) == {k \in DOMAIN map : map[k] # NoSession}
MapValues(map) == {map[k] : k \in MapKeys(map)}

\* Child::kill returned Ok (the signal was delivered) or Err (ignored by let _).
KillResults == {"Ok", "Err"}
\* Liveness of a process after Child::kill with the given result.
AfterKill(alive, result) == IF result = "Ok" THEN FALSE ELSE alive

\* A command reaches its return with the given value.
Returning(c, value) == [call[c] EXCEPT !.pc = "return", !.ret = value]

(***************************************************************************)
(* toggle_ping (lib.rs lines 82-197), one action per step of the handler.  *)
(***************************************************************************)
\* A toggle_ping that checks the address before it looks for an entry.
ToggleCheckValidatesFirst(c) ==
    /\ c \in env.callers
    /\ call[c].pc = "idle"
    /\ lock = "free"
    /\ \E id \in env.ids, a \in Addresses, n \in Counts :
         LET p == processes[id]
         IN  IF ~AddressValid(a)
             THEN /\ call' = [call EXCEPT ![c] =
                                [IdleCall EXCEPT !.pc = "return", !.op = "toggle_ping",
                                                 !.server_id = id, !.address = a,
                                                 !.ret = "Err(Invalid address format)"]]
                  /\ UNCHANGED <<env, processes, lock>>
             ELSE IF p # NoSession
             THEN /\ processes' = MapRemove(processes, id)
                  /\ lock' = c
                  /\ call' = [call EXCEPT ![c] =
                                [IdleCall EXCEPT !.pc = "set_flag", !.op = "toggle_ping",
                                                 !.server_id = id, !.address = a,
                                                 !.process = p]]
             ELSE /\ call' = [call EXCEPT ![c] =
                                [IdleCall EXCEPT !.pc = "spawn", !.op = "toggle_ping",
                                                 !.server_id = id, !.address = a]]
                  /\ UNCHANGED <<env, processes, lock>>
    /\ UNCHANGED <<env, sess, nextSess>>
\* The host invokes toggle_ping(server_id, address, count).  Lines 87-92 and
\* 104: lock the registry and remove the entry of server_id.  With an entry
\* the stop path goes on under the lock.  Without one the lock is released at
\* the end of the block and (lines 107-110) the address is checked against
\* the whitelist: the call returns the error, or goes on to build and spawn
\* the command.
ToggleCheck(c) ==
    /\ c \in env.callers
    /\ call[c].pc = "idle"
    /\ lock = "free"
    /\ \E id \in env.ids, a \in Addresses, n \in Counts :
         LET p == processes[id]
         IN  IF p # NoSession
             THEN /\ processes' = MapRemove(processes, id)
                  /\ lock' = c
                  /\ call' = [call EXCEPT ![c] =
                                [IdleCall EXCEPT !.pc = "set_flag", !.op = "toggle_ping",
                                                 !.server_id = id, !.address = a,
                                                 !.process = p]]
             ELSE /\ call' = [call EXCEPT ![c] =
                                IF AddressValid(a)
                                THEN [IdleCall EXCEPT !.pc = "spawn", !.op = "toggle_ping",
                                                      !.server_id = id, !.address = a]
                                ELSE [IdleCall EXCEPT !.pc = "return", !.op = "toggle_ping",
                                                      !.server_id = id, !.address = a,
                                                      !.ret = "Err(Invalid address format)"]]
                  /\ UNCHANGED <<env, processes, lock>>
    /\ UNCHANGED <<env, sess, nextSess>>

\* Line 94: process.stop_flag.lock(), granted when the mutex is free.
ToggleLockFlag(c) ==
    /\ call[c].pc = "set_flag"
    /\ sess[call[c].process].flag_lock = "free"
    /\ sess' = [sess EXCEPT ![call[c].process].flag_lock = c]
    /\ call' = [call EXCEPT ![c].pc = "write_flag", ![c].address = <<>>]
    /\ UNCHANGED <<env, processes, lock, nextSess>>

\* Line 94: *guard = true; the guard, a temporary, is dropped at the end of
\* the statement.
ToggleSetFlag(c) ==
    /\ call[c].pc = "write_flag"
    /\ sess' = [sess EXCEPT ![call[c].process].stop_flag = TRUE,
                            ![call[c].process].flag_lock = "free"]
    /\ call' = [call EXCEPT ![c].pc = "kill"]
    /\ UNCHANGED <<env, processes, lock, nextSess>>

\* A stop path that returns the error of a failed kill (kill()? instead of
\* let _ = kill()).
ToggleKillPropagates(c) ==
    /\ call[c].pc = "kill"
    /\ \E r \in KillResults :
         /\ sess' = [sess EXCEPT ![call[c].process].alive = AfterKill(@, r),
                                 ![call[c].process].killed = TRUE]
         /\ IF r = "Ok"
            THEN call' = [call EXCEPT ![c].pc = "emit"] /\ lock' = lock
            ELSE call' = [call EXCEPT ![c] = Returning(c, "Err(kill)")] /\ lock' = "free"
    /\ UNCHANGED <<env, processes, nextSess>>
\* Line 95: let _ = process.child.kill().
ToggleKill(c) ==
    /\ call[c].pc = "kill"
    /\ \E r \in KillResults :
         sess' = [sess EXCEPT ![call[c].process].alive = AfterKill(@, r),
                              ![call[c].process].killed = TRUE]
    /\ call' = [call EXCEPT ![c].pc = "emit"]
    /\ UNCHANGED <<env, processes, lock, nextSess>>

\* A stop path that returns with the guard of the registry lock still held.
ToggleEmitStoppedKeepsLock(c) ==
    /\ call[c].pc = "emit"
    /\ sess' = [sess EXCEPT ![call[c].process].events =
                  Append(@, PingEvent("ping-stopped", call[c].server_id))]
    /\ call' = [call EXCEPT ![c] = Returning(c, "Ok(false)")]
    /\ UNCHANGED <<env, processes, lock, nextSess>>
\* Lines 98-103: emit ping-stopped, return Ok(false); the guard of the
\* registry lock is dropped on return.
ToggleEmitStopped(c) ==
    /\ call[c].pc = "emit"
    /\ sess' = [sess EXCEPT ![call[c].process].events =
                  Append(@, PingEvent("ping-stopped", call[c].server_id))]
    /\ lock' = "free"
    /\ call' = [call EXCEPT ![c] = Returning(c, "Ok(false)")]
    /\ UNCHANGED <<env, processes, nextSess>>

\* Line 138: cmd.spawn() fails; the error is returned.
ToggleSpawnFails(c) ==
    /\ call[c].pc = "spawn"
    /\ call' = [call EXCEPT ![c] =
                  [Returning(c, "Err(Failed to spawn ping)") EXCEPT !.address = <<>>]]
    /\ UNCHANGED <<env, processes, lock, sess, nextSess>>

\* Lines 138-139: cmd.spawn() starts a ping process and child.stdout.take()
\* is Some.
ToggleSpawn(c) ==
    /\ call[c].pc = "spawn"
    /\ nextSess <= MaxSessions
    /\ sess' = [sess EXCEPT ![nextSess] =
                  [FreshSession EXCEPT !.spawned = TRUE, !.alive = TRUE,
                                       !.server_id = call[c].server_id]]
    /\ nextSess' = nextSess + 1
    /\ call' = [call EXCEPT ![c].pc = "insert", ![c].child = nextSess,
                             ![c].address = <<>>]
    /\ UNCHANGED <<env, processes, lock>>

\* Lines 138-139: cmd.spawn() starts a ping process and child.stdout.take()
\* is None: ok_or(..)? returns the error and drops child; dropping a
\* std::process::Child neither kills nor waits for the process.
ToggleNoStdout(c) ==
    /\ call[c].pc = "spawn"
    /\ nextSess <= MaxSessions
    /\ sess' = [sess EXCEPT ![nextSess] =
                  [FreshSession EXCEPT !.spawned = TRUE, !.alive = TRUE,
                                       !.server_id = call[c].server_id]]
    /\ nextSess' = nextSess + 1
    /\ call' = [call EXCEPT ![c] =
                  [Returning(c, "Err(Failed to get stdout)") EXCEPT !.child = nextSess,
                                                                    !.address = <<>>]]
    /\ UNCHANGED <<env, processes, lock>>

\* Lines 141-151: build the PingProcess (stop flag false) and insert it.
ToggleInsert(c) ==
    /\ call[c].pc = "insert"
    /\ lock = "free"
    /\ processes' = MapInsert(processes, call[c].server_id, call[c].child)
    /\ sess' = [sess EXCEPT ![call[c].child].registered = TRUE]
    /\ call' = [call EXCEPT ![c].pc = "thread"]
    /\ UNCHANGED <<env, lock, nextSess>>

\* Lines 154-196: start the reader thread, return Ok(true).
ToggleSpawnThread(c) ==
    /\ call[c].pc = "thread"
    /\ sess' = [sess EXCEPT ![call[c].child].reader = "read"]
    /\ call' = [call EXCEPT ![c] = Returning(c, "Ok(true)")]
    /\ UNCHANGED <<env, processes, lock, nextSess>>

\* The command has returned to the host; the caller thread is free again.
Return(c) ==
    /\ call[c].pc = "return"
    /\ call' = [call EXCEPT ![c] = IdleCall]
    /\ UNCHANGED <<env, processes, lock, sess, nextSess>>

(***************************************************************************)
(* stop_all_pings (lib.rs lines 200-206).  The guard of the registry lock  *)
(* lives until the function returns.                                       *)
(***************************************************************************)
\* A stop_all_pings that drops the guard of the registry lock once the map
\* is drained, before it works on the entries.
StopAllLockReleased(c) ==
    /\ c \in env.callers
    /\ call[c].pc = "idle"
    /\ lock = "free"
    /\ processes' = MapDrain(processes)
    /\ call' = [call EXCEPT ![c] =
                  [IdleCall EXCEPT !.pc = "sa_next", !.op = "stop_all_pings",
                                   !.todo = MapValues(processes),
                                   !.snap = MapValues(processes)]]
    /\ UNCHANGED <<env, lock, sess, nextSess>>
\* The host invokes stop_all_pings.  Lines 201-202: lock the registry and
\* drain it: the iterator owns every entry and the map is left empty.
StopAllLock(c) ==
    /\ c \in env.callers
    /\ call[c].pc = "idle"
    /\ lock = "free"
    /\ lock' = c
    /\ processes' = MapDrain(processes)
    /\ call' = [call EXCEPT ![c] =
                  [IdleCall EXCEPT !.pc = "sa_next", !.op = "stop_all_pings",
                                   !.todo = MapValues(processes),
                                   !.snap = MapValues(processes)]]
    /\ UNCHANGED <<env, sess, nextSess>>

\* Line 202: the drain iterator yields the next entry, in the map's order.
StopAllNext(c) ==
    /\ call[c].pc = "sa_next"
    /\ \E p \in call[c].todo :
         call' = [call EXCEPT ![c].pc = "sa_flag", ![c].process = p,
                              ![c].todo = @ \ {p}]
    /\ UNCHANGED <<env, processes, lock, sess, nextSess>>

\* Line 203: process.stop_flag.lock(), granted when the mutex is free.
StopAllLockFlag(c) ==
    /\ call[c].pc = "sa_flag"
    /\ sess[call[c].process].flag_lock = "free"
    /\ sess' = [sess EXCEPT ![call[c].process].flag_lock = c]
    /\ call' = [call EXCEPT ![c].pc = "sa_write"]
    /\ UNCHANGED <<env, processes, lock, nextSess>>

\* Line 203: *guard = true; the guard is dropped at the end of the statement.
StopAllSetFlag(c) ==
    /\ call[c].pc = "sa_write"
    /\ sess' = [sess EXCEPT ![call[c].process].stop_flag = TRUE,
                            ![call[c].process].flag_lock = "free"]
    /\ call' = [call EXCEPT ![c].pc = "sa_kill"]
    /\ UNCHANGED <<env, processes, lock, nextSess>>

\* Line 204: let _ = process.child.kill().
StopAllKill(c) ==
    /\ call[c].pc = "sa_kill"
    /\ \E r \in KillResults :
         sess' = [sess EXCEPT ![call[c].process].alive = AfterKill(@, r),
                              ![call[c].process].killed = TRUE]
    /\ call' = [call EXCEPT ![c].pc = "sa_next"]
    /\ UNCHANGED <<env, processes, lock, nextSess>>

\* Lines 205-206: the map is drained; return and unlock.
StopAllReturn(c) ==
    /\ call[c].pc = "sa_next"
    /\ call[c].todo = {}
    /\ lock' = "free"
    /\ call' = [call EXCEPT ![c] = Returning(c, "()")]
    /\ UNCHANGED <<env, processes, sess, nextSess>>

(***************************************************************************)
(* The reader thread of a session (lib.rs lines 158-194).                  *)
(***************************************************************************)
\* A reader that looks for a timeout phrase before it looks for a latency.
SampleEventsTimeoutFirst(server_id, item, n) ==
    IF ~item.ok THEN <<>>
    ELSE IF is_timeout_line(item.text)
         THEN <<PingTimeout(server_id, n)>>
    ELSE IF parse_ping_line(item.text) # NoneF64
         THEN <<PingResult(server_id, parse_ping_line(item.text), n)>>
    ELSE <<>>
\* Lines 167-178: the events one processed line produces.
SampleEvents(server_id, item, n) ==
    IF ~item.ok THEN <<>>
    ELSE IF parse_ping_line(item.text) # NoneF64
         THEN <<PingResult(server_id, parse_ping_line(item.text), n)>>
    ELSE IF is_timeout_line(item.text)
         THEN <<PingTimeout(server_id, n)>>
    ELSE <<>>

\* A reader that reports completion whatever the flag says.
CompleteEventsAlways(server_id, stop_flag) ==
    <<PingEvent("ping-complete", server_id)>>

\* Lines 188-193: ping-complete is emitted only when the flag reads false.
CompleteEvents(server_id, stop_flag) ==
    IF ~stop_flag THEN <<PingEvent("ping-complete", server_id)>> ELSE <<>>

\* Lines 161-163: reader.lines() yields the next line of the pipe (it blocks
\* while the pipe is empty and the process holds its end open), and
\* stop_flag.lock() is granted when the mutex is free.
ReaderNextLine(s) ==
    /\ sess[s].reader = "read"
    /\ sess[s].stdout # <<>>
    /\ sess[s].flag_lock = "free"
    /\ sess' = [sess EXCEPT ![s].stdout = PipeRest(sess[s].stdout),
                            ![s].line = PipeNext(sess[s].stdout),
                            ![s].flag_lock = "reader",
                            ![s].reader = "check"]
    /\ UNCHANGED <<env, processes, lock, nextSess, call>>

\* A reader that processes every line it reads, whatever the flag says.
ReaderCheckFlagUnchecked(s) ==
    /\ sess[s].reader = "check"
    /\ sess' = [sess EXCEPT ![s].flag_lock = "free",
                            ![s].reader = "process"]
    /\ UNCHANGED <<env, processes, lock, nextSess, call>>
\* A reader that polls the flag only before the first line of the output.
ReaderCheckFlagOnce(s) ==
    /\ sess[s].reader = "check"
    /\ LET stop == sess[s].stop_flag /\ sess[s].line.n = 1
       IN  sess' = [sess EXCEPT ![s].line = IF stop THEN NoLine ELSE @,
                                ![s].flag_lock = "free",
                                ![s].reader = IF stop THEN "remove" ELSE "process"]
    /\ UNCHANGED <<env, processes, lock, nextSess, call>>
\* A reader whose guard of the flag mutex lives on when it breaks out of the
\* loop.
ReaderCheckFlagKeepsGuard(s) ==
    /\ sess[s].reader = "check"
    /\ sess' = [sess EXCEPT ![s].line = IF sess[s].stop_flag THEN NoLine ELSE @,
                            ![s].flag_lock = IF sess[s].stop_flag THEN @ ELSE "free",
                            ![s].reader = IF sess[s].stop_flag THEN "remove" ELSE "process"]
    /\ UNCHANGED <<env, processes, lock, nextSess, call>>
\* Lines 163-165: the stop flag is read before the line is processed, and a
\* true flag breaks the loop; the guard, a temporary of the condition, is
\* dropped either way.
ReaderCheckFlag(s) ==
    /\ sess[s].reader = "check"
    /\ sess' = [sess EXCEPT ![s].line = IF sess[s].stop_flag THEN NoLine ELSE @,
                            ![s].flag_lock = "free",
                            ![s].reader = IF sess[s].stop_flag THEN "remove" ELSE "process"]
    /\ UNCHANGED <<env, processes, lock, nextSess, call>>

\* Line 161: end of stream: the pipe is empty and the process is gone; the
\* loop ends.
ReaderEndOfStream(s) ==
    /\ sess[s].reader = "read"
    /\ sess[s].stdout = <<>>
    /\ ~sess[s].alive
    /\ sess' = [sess EXCEPT ![s].reader = "remove"]
    /\ UNCHANGED <<env, processes, lock, nextSess, call>>

\* Lines 167-179: parse the line and emit its sample.
ReaderProcess(s) ==
    /\ sess[s].reader = "process"
    /\ sess' = [sess EXCEPT ![s].events =
                              @ \o SampleEvents(sess[s].server_id, sess[s].line.item,
                                                sess[s].line.n),
                            ![s].line = NoLine,
                            ![s].reader = "read"]
    /\ UNCHANGED <<env, processes, lock, nextSess, call>>

\* Lines 183-186: lock the registry, remove server_id, unlock.
ReaderRemove(s) ==
    /\ sess[s].reader = "remove"
    /\ lock = "free"
    /\ processes' = MapRemove(processes, sess[s].server_id)
    /\ sess' = [sess EXCEPT ![s].reader = "final"]
    /\ UNCHANGED <<env, lock, nextSess, call>>

\* Line 189: stop_flag.lock(), granted when the mutex is free.
ReaderLockFlag(s) ==
    /\ sess[s].reader = "final"
    /\ sess[s].flag_lock = "free"
    /\ sess' = [sess EXCEPT ![s].flag_lock = "reader", ![s].reader = "report"]
    /\ UNCHANGED <<env, processes, lock, nextSess, call>>

\* Lines 189-194: read the flag and drop the guard; emit ping-complete
\* unless stopped; the thread ends and drops its end of the pipe.
ReaderFinal(s) ==
    /\ sess[s].reader = "report"
    /\ sess' = [sess EXCEPT ![s].events =
                              @ \o CompleteEvents(sess[s].server_id, sess[s].stop_flag),
                            ![s].stdout = <<>>,
                            ![s].flag_lock = "free",
                            ![s].reader = "done"]
    /\ UNCHANGED <<env, processes, lock, nextSess, call>>

(***************************************************************************)
(* The external ping process of a session.                                 *)
(***************************************************************************)
\* The process writes one more line to its stdout, read by a reader thread
\* that is running or about to be started.
ProcessWrites(s) ==
    /\ sess[s].alive
    /\ sess[s].registered
    /\ sess[s].reader # "done"
    /\ sess[s].written < env.lines
    /\ sess' = [sess EXCEPT ![s].stdout =
                              Append(@, Written(sess[s].written + 1,
                                                OutputLine(sess[s].server_id, sess[s].written + 1))),
                            ![s].written = @ + 1]
    /\ UNCHANGED <<env, processes, lock, nextSess, call>>

\* The process exits on its own (its cycles are exhausted, or it fails).
ProcessExits(s) ==
    /\ sess[s].alive
    /\ sess' = [sess EXCEPT ![s].alive = FALSE]
    /\ UNCHANGED <<env, processes, lock, nextSess, call>>

Next ==
    \/ \E c \in Callers :
         \/ ToggleCheck(c)
         \/ ToggleLockFlag(c)
         \/ ToggleSetFlag(c)
         \/ ToggleKill(c)
         \/ ToggleEmitStopped(c)
         \/ ToggleSpawnFails(c)
         \/ ToggleSpawn(c)
         \/ ToggleNoStdout(c)
         \/ ToggleInsert(c)
         \/ ToggleSpawnThread(c)
         \/ Return(c)
         \/ StopAllLock(c)
         \/ StopAllNext(c)
         \/ StopAllLockFlag(c)
         \/ StopAllSetFlag(c)
         \/ StopAllKill(c)
         \/ StopAllReturn(c)
    \/ \E s \in Sessions :
         \/ ReaderNextLine(s)
         \/ ReaderCheckFlag(s)
         \/ ReaderEndOfStream(s)
         \/ ReaderProcess(s)
         \/ ReaderRemove(s)
         \/ ReaderLockFlag(s)
         \/ ReaderFinal(s)
         \/ ProcessWrites(s)
         \/ ProcessExits(s)

Spec == Init /\ [][Next]_vars

(***************************************************************************)
(* Fair scheduling.  A command that has been invoked keeps running to its  *)
(* return, and a reader thread keeps running to its end; a thread waiting  *)
(* for the registry lock or for a flag lock gets it if it is free again    *)
(* and again (the mutex of parking_lot is eventually fair).  Nothing       *)
(* obliges the host to invoke a command, nor a ping process to write or to *)
(* exit.                                                                   *)
(***************************************************************************)
\* The steps of a command of caller c that wait for nothing.
CallerRuns(c) ==
    \/ ToggleSetFlag(c)
    \/ ToggleKill(c)
    \/ ToggleEmitStopped(c)
    \/ ToggleSpawnFails(c)
    \/ ToggleSpawn(c)
    \/ ToggleNoStdout(c)
    \/ ToggleSpawnThread(c)
    \/ Return(c)
    \/ StopAllNext(c)
    \/ StopAllSetFlag(c)
    \/ StopAllKill(c)
    \/ StopAllReturn(c)
\* The steps of a command of caller c that lock a mutex, but for the lock
\* at its entry.
CallerLocks(c) ==
    \/ ToggleLockFlag(c)
    \/ ToggleInsert(c)
    \/ StopAllLockFlag(c)
\* The steps of the reader of session s that lock no mutex, but for
\* ReaderProcess.
ReaderRuns(s) ==
    \/ ReaderCheckFlag(s)
    \/ ReaderEndOfStream(s)
    \/ ReaderFinal(s)
\* The steps of the reader of session s that lock a mutex.
ReaderLocks(s) ==
    \/ ReaderNextLine(s)
    \/ ReaderRemove(s)
    \/ ReaderLockFlag(s)
\* Weak fairness of ReaderProcess(s), written by what it means: the step is
\* enabled exactly while the reader is processing a line, and it ends that.
ReaderProcessFair(s) == []<>(sess[s].reader # "process")
Fairness ==
    /\ \A c \in Callers : WF_vars(CallerRuns(c)) /\ SF_vars(CallerLocks(c))
    /\ \A s \in Sessions :
         WF_vars(ReaderRuns(s)) /\ ReaderProcessFair(s) /\ SF_vars(ReaderLocks(s))
\* The scenarios in which liveness is explored: the race, and one thread
\* working on one target whose pings print MaxLines - 1 lines.
FairScenarios ==
    { [name |-> "race", callers |-> Callers, ids |-> {"s1"}, lines |-> MaxLines - 2],
      [name |-> "single", callers |-> {"c1"}, ids |-> {"s1"}, lines |-> MaxLines - 1] }
\* The state after construction, in that scenario.
FairInit ==
    /\ env \in FairScenarios
    /\ processes = [k \in ServerIds |-> NoSession]
    /\ lock = "free"
    /\ sess = [s \in Sessions |-> FreshSession]
    /\ nextSess = 1
    /\ call = [c \in Callers |-> IdleCall]
FairSpec == FairInit /\ [][Next]_vars /\ Fairness

(***************************************************************************)
(* The reader on any output.  A session is running with its reader in its  *)
(* loop and up to MaxLines lines of any kind waiting in the pipe; only the *)
(* reader and the process act.                                             *)
(***************************************************************************)
\* A line with a latency and a timeout phrase.
LineBoth == OkLine(<<"t", "i", "m", "e", "=", "7", " ", "m", "s", " ", "R", "e", "q", "u", "e", "s", "t", " ",
                     "t", "i", "m", "e", "d", " ", "o", "u", "t">>)
LineBelowOne == OkLine(<<"t", "i", "m", "e", "<", "1", "m", "s">>)
LineHostDown == OkLine(<<"D", "e", "s", "t", "i", "n", "a", "t", "i", "o", "n", " ", "H", "o", "s", "t", " ",
                         "U", "n", "r", "e", "a", "c", "h", "a", "b", "l", "e">>)
AnyLines == OutputLines \cup {LineBoth, LineBelowOne, LineHostDown}
\* The pipes holding len lines of AnyLines, numbered from 1.
PipesOf(len) == {[n \in 1..len |-> Written(n, f[n])] : f \in [1..len -> AnyLines]}
InitLines ==
    /\ env = [name |-> "lines", callers |-> {}, ids |-> {"s1"}, lines |-> 0]
    /\ processes = [k \in ServerIds |-> IF k = "s1" THEN 1 ELSE NoSession]
    /\ lock = "free"
    /\ \E len \in 1..MaxLines : \E pipe \in PipesOf(len) :
         sess = [s \in Sessions |->
                   IF s = 1
                   THEN [FreshSession EXCEPT !.spawned = TRUE, !.server_id = "s1",
                                             !.alive = TRUE, !.registered = TRUE,
                                             !.stdout = pipe, !.written = len,
                                             !.reader = "read"]
                   ELSE FreshSession]
    /\ nextSess = 2
    /\ call = [c \in Callers |-> IdleCall]
NextLines ==
    \E s \in Sessions :
        \/ ReaderNextLine(s)
        \/ ReaderCheckFlag(s)
        \/ ReaderEndOfStream(s)
        \/ ReaderProcess(s)
        \/ ReaderRemove(s)
        \/ ReaderLockFlag(s)
        \/ ReaderFinal(s)
        \/ ProcessExits(s)
LinesSpec == InitLines /\ [][NextLines]_vars

(***************************************************************************)
(* Vocabulary of the properties.                                           *)
(***************************************************************************)
IsTerminal(e) == e.name \in {"ping-stopped", "ping-complete"}
IsSample(e) == e.name \in {"ping-result", "ping-timeout"}
\* Positions of the events of a session that carry the given name.
EventsNamed(s, name) == {i \in DOMAIN sess[s].events : sess[s].events[i].name = name}
\* A session exists: its PingProcess was built and put into the registry,
\* and its ping process is running.
LiveSession(s) == sess[s].spawned /\ sess[s].registered /\ sess[s].alive
\* The call of caller c is at its return with value v.
Returns(c, v) == call[c].pc = "return" /\ call[c].ret = v
\* No command is executing and no reader is between the end of its loop and
\* the end of its thread.
Quiet ==
    /\ \A c \in Callers : call[c].pc \in {"idle", "return"}
    /\ \A s \in Sessions : sess[s].reader \in {"none", "read", "check", "process", "done"}

(***************************************************************************)
(* C1: at most one session exists per identifier at any instant: there are *)
(* never two live ping processes of registered sessions for the same       *)
(* server_id.                                                              *)
(***************************************************************************)
C1_OneSessionPerId ==
    \A s, t \in Sessions :
        (s # t /\ LiveSession(s) /\ LiveSession(t))
            => sess[s].server_id # sess[t].server_id

(***************************************************************************)
(* C2: the key set of the registry equals the set of server_ids with a     *)
(* live process of this subsystem.  Stated where nothing is in progress,   *)
(* for the processes nobody asked to stop: whenever no command is          *)
(* executing and no reader is leaving, every live session that was not     *)
(* stopped is the entry of its server_id (no orphaned process).            *)
(***************************************************************************)
C2_RegistryMatchesLive ==
    Quiet =>
        \A s \in Sessions :
            (LiveSession(s) /\ ~sess[s].stop_flag /\ sess[s].reader # "done")
                => processes[sess[s].server_id] = s

(***************************************************************************)
(* C3: ping-stopped and ping-complete are never both emitted for a         *)
(* session, and neither is emitted more than once for it.                  *)
(***************************************************************************)
C3_SingleTerminalEvent ==
    \A s \in Sessions :
        Cardinality(EventsNamed(s, "ping-stopped") \cup EventsNamed(s, "ping-complete")) <= 1

\* One session was stopped by toggle_ping and its reader has ended; another
\* one ran to the end of its output and its reader has ended.
C3_Witness ==
    \E s, t \in Sessions :
        /\ sess[s].reader = "done" /\ EventsNamed(s, "ping-stopped") # {}
        /\ sess[t].reader = "done" /\ EventsNamed(t, "ping-complete") # {}

(***************************************************************************)
(* C4: once the output of a session has ended or its cancellation was      *)
(* requested, exactly one terminal event is emitted for it: ping-stopped   *)
(* if cancellation was requested, ping-complete otherwise.  Stated as the  *)
(* final result: when the reader of a session has ended and no command is  *)
(* still working on the session, its events hold exactly one terminal      *)
(* event, ping-stopped if its stop flag is set and ping-complete if not.   *)
(***************************************************************************)
C4_ExactlyOneTerminal ==
    \A s \in Sessions :
        (/\ sess[s].reader = "done"
         /\ \A c \in Callers : ~(call[c].pc \notin {"idle", "return"} /\ call[c].process = s))
            => IF sess[s].stop_flag
               THEN /\ Cardinality(EventsNamed(s, "ping-stopped")) = 1
                    /\ EventsNamed(s, "ping-complete") = {}
               ELSE /\ Cardinality(EventsNamed(s, "ping-complete")) = 1
                    /\ EventsNamed(s, "ping-stopped") = {}

(***************************************************************************)
(* C5: the terminal event of a session is the last event emitted for it:   *)
(* no ping-result or ping-timeout follows a ping-stopped or ping-complete. *)
(***************************************************************************)
C5_TerminalIsLast ==
    \A s \in Sessions :
        \A i, j \in DOMAIN sess[s].events :
            (i < j /\ IsTerminal(sess[s].events[i])) => ~IsSample(sess[s].events[j])

(***************************************************************************)
(* C6 as claimed: a toggle_ping call with a valid address that finds no    *)
(* entry for its server_id spawns one process, inserts one entry and       *)
(* returns true.                                                           *)
(***************************************************************************)
C6_StartAlwaysSucceeds ==
    \A c \in Callers :
        (/\ call[c].pc = "return"
         /\ call[c].op = "toggle_ping"
         /\ call[c].process = NoSession
         /\ call[c].ret # "Err(Invalid address format)")
            => /\ call[c].ret = "Ok(true)"
               /\ call[c].child # NoSession

(***************************************************************************)
(* C6 amended: toggle_ping is start-if-absent, stop-if-present, keyed on   *)
(* the registry.  A call that found an entry returns false, has removed    *)
(* that entry, set its stop flag and killed its process, and has spawned   *)
(* nothing.  A call that found none and whose address is valid returns     *)
(* true with one spawned process that it registered and gave a reader, or, *)
(* when the spawn fails or the child has no stdout, returns that error     *)
(* with nothing registered.                                                *)
(***************************************************************************)
C6_ToggleStartStop ==
    \A c \in Callers :
        (call[c].pc = "return" /\ call[c].op = "toggle_ping") =>
            /\ call[c].process # NoSession =>
                 /\ call[c].ret = "Ok(false)"
                 /\ call[c].child = NoSession
                 /\ sess[call[c].process].server_id = call[c].server_id
                 /\ processes[call[c].server_id] # call[c].process
                 /\ sess[call[c].process].stop_flag
                 /\ sess[call[c].process].killed
            /\ call[c].process = NoSession =>
                 /\ call[c].ret \in {"Ok(true)", "Err(Invalid address format)",
                                     "Err(Failed to spawn ping)", "Err(Failed to get stdout)"}
                 /\ call[c].ret = "Ok(true)" =>
                      /\ call[c].child # NoSession
                      /\ sess[call[c].child].server_id = call[c].server_id
                      /\ sess[call[c].child].registered
                      /\ sess[call[c].child].reader # "none"
                 /\ call[c].ret = "Err(Failed to get stdout)" =>
                      /\ call[c].child # NoSession
                      /\ ~sess[call[c].child].registered
                 /\ call[c].ret \in {"Err(Invalid address format)", "Err(Failed to spawn ping)"} =>
                      call[c].child = NoSession

\* A call has started a session for a server_id whose earlier session ended
\* on its own (its reader removed the entry and reported completion), and a
\* later call has stopped the new session.
C6_Witness ==
    \E c \in Callers, s \in Sessions :
        /\ Returns(c, "Ok(false)")
        /\ call[c].process # s
        /\ sess[s].server_id = call[c].server_id
        /\ sess[s].reader = "done"
        /\ EventsNamed(s, "ping-complete") # {}

(***************************************************************************)
(* C7: a toggle_ping call for a server_id without a running session whose  *)
(* address has a character outside {alphanumeric, '.', '-', ':'} returns   *)
(* the invalid-address error; it spawns no process, starts no reader,      *)
(* emits no event and leaves the registry unchanged.  An address made of   *)
(* permitted characters only is accepted: it is never answered with that   *)
(* error, and only such an address reaches the spawn.                      *)
(***************************************************************************)
\* The address is made of alphanumeric characters, '.', '-' and ':' only.
OnlyPermittedChars(address) ==
    \A i \in DOMAIN address : IsAlphanumeric(address[i]) \/ address[i] \in {".", "-", ":"}

C7_RejectedCallState ==
    \A c \in Callers :
        /\ call[c].pc = "spawn" => OnlyPermittedChars(call[c].address)
        /\ Returns(c, "Err(Invalid address format)") =>
             /\ ~OnlyPermittedChars(call[c].address)
             /\ call[c].child = NoSession
             /\ call[c].process = NoSession

\* The step that rejects an address changes nothing but the caller.
C7_RejectedCallStep ==
    \A c \in Callers :
        (call[c].pc = "idle" /\ call'[c].pc = "return"
         /\ call'[c].ret = "Err(Invalid address format)")
            => /\ processes[call'[c].server_id] = NoSession
               /\ UNCHANGED <<processes, lock, sess, nextSess>>

C8_StopAllDrains ==
    \A c \in Callers :
        /\ (call[c].op = "stop_all_pings" /\ call[c].pc \in {"sa_next", "sa_flag", "sa_write", "sa_kill"}) =>
             /\ lock = c
             /\ MapKeys(processes) = {}
        /\ (call[c].op = "stop_all_pings"
            /\ (call[c].pc = "return" \/ (call[c].pc = "sa_next" /\ call[c].todo = {}))) =>
             /\ \A s \in call[c].snap : sess[s].stop_flag /\ sess[s].killed
             /\ \A s \in call[c].snap : s \notin MapValues(processes)

\* stop_all_pings has returned after finding two sessions, and the reader
\* of one of them is still in its loop.
C8_Witness ==
    \E c \in Callers :
        /\ Returns(c, "()")
        /\ Cardinality(call[c].snap) = 2
        /\ \E s \in call[c].snap : sess[s].reader \in {"read", "process"}

(***************************************************************************)
(* C9: the sample events of a session come in the order of the output      *)
(* lines they were made from: a later sample is never of an earlier or of  *)
(* the same line, and each sample is the one its line yields.              *)
(***************************************************************************)
C9_SamplesInLineOrder ==
    \A s \in Sessions :
        LET ev == sess[s].events
        IN  /\ \A i, j \in DOMAIN ev :
                  (i < j /\ IsSample(ev[i]) /\ IsSample(ev[j])) => ev[i].line < ev[j].line
            /\ \A i \in DOMAIN ev :
                  IsSample(ev[i]) =>
                      /\ ev[i].line \in 1..sess[s].written
                      /\ <<ev[i]>> = SampleEvents(sess[s].server_id,
                                                  OutputLine(sess[s].server_id, ev[i].line),
                                                  ev[i].line)

\* A session has emitted the samples of two lines.
C9_Witness ==
    \E s \in Sessions :
        \E i, j \in DOMAIN sess[s].events :
            /\ i < j
            /\ sess[s].events[i].name = "ping-result"
            /\ sess[s].events[j].name = "ping-timeout"

(***************************************************************************)
(* C10: when the spawned process exposes no readable stdout, toggle_ping   *)
(* returns the error and the child is not leaked: after the error return   *)
(* no live process is left that is neither in the registry nor killed.     *)
(***************************************************************************)
C10_NoStdoutChildNotLeaked ==
    \A c \in Callers :
        Returns(c, "Err(Failed to get stdout)") =>
            \/ ~sess[call[c].child].alive
            \/ sess[call[c].child].killed
            \/ call[c].child \in MapValues(processes)

(***************************************************************************)
(* Steps of commands, for the properties that speak of one call.           *)
(***************************************************************************)
\* This step is a step of the toggle_ping call of caller c.
ToggleStep(c) ==
    /\ call'[c] # call[c]
    /\ "toggle_ping" \in {call[c].op, call'[c].op}
\* The server_id argument of the toggle_ping call of c that takes this step.
ToggleTarget(c) ==
    IF call[c].op = "toggle_ping" THEN call[c].server_id ELSE call'[c].server_id

(***************************************************************************)
(* C11: probes are independently cancellable: a step of a toggle_ping call *)
(* on server_id X, on its start path or its stop path, leaves unchanged    *)
(* the map entry of every other server_id and the whole state (stop flag,  *)
(* process liveness, reader thread, events and so every terminal event) of *)
(* every session with a different server_id.                               *)
(***************************************************************************)
C11_ToggleFrame ==
    [][\A c \in Callers :
         ToggleStep(c) =>
           /\ \A k \in ServerIds \ {ToggleTarget(c)} : processes'[k] = processes[k]
           /\ \A s \in Sessions :
                (sess[s].spawned /\ sess[s].server_id # ToggleTarget(c))
                    => sess'[s] = sess[s]]_vars
\* A toggle_ping on one server_id has stopped its session and returned while
\* the session of another server_id is still registered, running and not
\* flagged, with its reader in its loop and no terminal event.
C11_Witness ==
    \E c \in Callers, s, t \in Sessions :
        /\ Returns(c, "Ok(false)")
        /\ call[c].process = s
        /\ sess[t].server_id # sess[s].server_id
        /\ LiveSession(t)
        /\ processes[sess[t].server_id] = t
        /\ ~sess[t].stop_flag
        /\ sess[t].reader \in {"read", "process"}
        /\ \A i \in DOMAIN sess[t].events : ~IsTerminal(sess[t].events[i])

\* The sample events among the events of a session.
Samples(events) == SelectSeq(events, IsSample)
\* The reader thread of a session has left its loop.
LeftLoop(s) == sess[s].reader \in {"remove", "final", "report", "done"}

(***************************************************************************)
(* C12: cancellation is polled between lines: the reader reads the stop    *)
(* flag each time it has taken a line and before it processes it: a line   *)
(* goes to processing only in a step that read the flag as false, a sample *)
(* is emitted only for a line in processing, and a step that takes a line  *)
(* with the flag true leaves the loop with no event; once out of the loop  *)
(* the reader stays out and emits no sample for any later line.            *)
(***************************************************************************)
C12_FlagPolledBetweenLines ==
    [][\A s \in Sessions :
         /\ (sess[s].reader = "check" /\ sess'[s].reader # "check" /\ sess[s].stop_flag)
               => (sess'[s].reader = "remove" /\ sess'[s].events = sess[s].events)
         /\ (sess[s].reader # "process" /\ sess'[s].reader = "process")
               => (sess[s].reader = "check" /\ ~sess[s].stop_flag)
         /\ (sess[s].reader = "read" /\ sess'[s].reader # "read")
               => (sess'[s].reader \in {"check", "remove"} /\ sess'[s].events = sess[s].events)
         /\ Samples(sess'[s].events) # Samples(sess[s].events)
               => sess[s].reader = "process"
         /\ LeftLoop(s)
               => (LeftLoop(s)' /\ Samples(sess'[s].events) = Samples(sess[s].events))]_vars
\* A reader has left its loop on the flag (its process is still running, so
\* it was not the end of the stream) with a later line still unread in the
\* pipe.
C12_Witness ==
    \E s \in Sessions :
        /\ sess[s].reader = "remove"
        /\ sess[s].stop_flag
        /\ sess[s].alive
        /\ sess[s].stdout # <<>>
        /\ Len(Samples(sess[s].events)) < sess[s].written - Len(sess[s].stdout)

(***************************************************************************)
(* C13: after a session's flag has been set and its process killed by a    *)
(* kill that ended the process (so that its end of the pipe is closed),    *)
(* the reader thread of the session, wherever it is (blocked on the next   *)
(* line, processing one, or not yet started), eventually ends, under fair  *)
(* scheduling.                                                             *)
(***************************************************************************)
C13_StoppedReaderEnds ==
    \A s \in Sessions :
        (sess[s].registered /\ sess[s].stop_flag /\ sess[s].killed /\ ~sess[s].alive)
            ~> (sess[s].reader = "done")
\* The stop path of toggle_ping has set the flag and killed the process
\* while the reader was in its loop with nothing to read, and the reader has
\* ended.
C13_Witness ==
    \E s \in Sessions :
        /\ sess[s].stop_flag /\ sess[s].killed /\ ~sess[s].alive
        /\ sess[s].reader = "done"
        /\ sess[s].written = 0
        /\ EventsNamed(s, "ping-stopped") # {}

\* The kill of session s failed: it was killed and its process still runs.
KillFailed(s) == sess[s].killed /\ sess[s].alive

(***************************************************************************)
(* C14: killing during stop is best-effort: a toggle_ping call at its      *)
(* return whose kill of the child failed has removed the entry, set the    *)
(* stop flag, emitted ping-stopped and returns false; a stop_all_pings     *)
(* call at its return, one of whose kills failed, has drained every entry, *)
(* flagged and killed each, and returns normally; no stop returns an       *)
(* error.                                                                  *)
(***************************************************************************)
C14_KillBestEffort ==
    \A c \in Callers :
        /\ (call[c].pc = "return" /\ call[c].process # NoSession)
              => call[c].ret \in {"Ok(false)", "()"}
        /\ (call[c].pc = "return" /\ call[c].op = "toggle_ping"
                /\ call[c].process # NoSession /\ KillFailed(call[c].process))
              => /\ call[c].ret = "Ok(false)"
                 /\ call[c].process \notin MapValues(processes)
                 /\ sess[call[c].process].stop_flag
                 /\ EventsNamed(call[c].process, "ping-stopped") # {}
                 /\ lock # c
        /\ (call[c].pc = "return" /\ call[c].op = "stop_all_pings"
                /\ \E s \in call[c].snap : KillFailed(s))
              => /\ call[c].ret = "()"
                 /\ call[c].todo = {}
                 /\ lock # c
                 /\ \A s \in call[c].snap :
                      /\ s \notin MapValues(processes)
                      /\ sess[s].stop_flag
                      /\ sess[s].killed
\* One toggle_ping is at its return with false after a kill that failed, and
\* a stop_all_pings is at its return after a drain in which a kill failed.
C14_Witness ==
    \E c, d \in Callers :
        /\ Returns(c, "Ok(false)")
        /\ KillFailed(call[c].process)
        /\ Returns(d, "()")
        /\ \E s \in call[d].snap : KillFailed(s)

\* This step is the flag write (line 94 or line 203) of a command of caller c
\* on session s.
FlagWriteBy(c, s) ==
    /\ call[c].pc \in {"write_flag", "sa_write"}
    /\ call[c].process = s
    /\ call'[c].pc \in {"kill", "sa_kill"}

(***************************************************************************)
(* C15: the stop flag of a session is false when its process is spawned    *)
(* and its PingProcess built; every step that changes it is the flag write *)
(* of the stop path of toggle_ping or of stop_all_pings, made by the       *)
(* thread that holds the registry lock, and sets it to true; no step of a  *)
(* reader thread changes it; once true it stays true.                      *)
(***************************************************************************)
C15_FlagWriters ==
    [][\A s \in Sessions :
         /\ (~sess[s].spawned /\ sess'[s].spawned) => ~sess'[s].stop_flag
         /\ (~sess[s].registered /\ sess'[s].registered) => ~sess'[s].stop_flag
         /\ sess'[s].stop_flag # sess[s].stop_flag
               => /\ sess'[s].stop_flag
                  /\ \E c \in Callers : FlagWriteBy(c, s) /\ lock = c /\ lock' = c
                  /\ \A t \in Sessions : sess'[t].reader = sess[t].reader
         /\ sess[s].stop_flag => sess'[s].stop_flag]_vars
\* stop_all_pings, holding the registry lock, has just set the flag of a
\* session that toggle_ping had started, while the flag of another session
\* it drained is still false.
C15_Witness ==
    \E c \in Callers, s, t \in Sessions :
        /\ call[c].pc = "sa_kill"
        /\ call[c].process = s
        /\ lock = c
        /\ sess[s].stop_flag
        /\ t \in call[c].todo
        /\ ~sess[t].stop_flag

\* The item is a readable line in which a latency is found.
HasLatency(item) == item.ok /\ parse_ping_line(item.text) # NoneF64
\* The item is a readable line that holds a timeout phrase.
HasTimeoutPhrase(item) == item.ok /\ is_timeout_line(item.text)
\* The events the step appends to the events of session s.
NewEvents(s) == SubSeq(sess'[s].events, Len(sess[s].events) + 1, Len(sess'[s].events))

(***************************************************************************)
(* C16: each processed output line yields at most one sample event,        *)
(* chosen with latency first: a line with a latency match emits exactly    *)
(* one ping-result carrying it (also when the line holds a timeout         *)
(* phrase), a line with no latency match but a timeout phrase emits        *)
(* exactly one ping-timeout, and a line with neither, or an unreadable     *)
(* line, emits nothing; in every case the reader goes on to the next line. *)
(***************************************************************************)
C16_OneSamplePerLine ==
    [][\A s \in Sessions :
         (sess[s].reader = "process" /\ sess'[s].reader # "process") =>
            LET item == sess[s].line.item
                n == sess[s].line.n
            IN  /\ SubSeq(sess'[s].events, 1, Len(sess[s].events)) = sess[s].events
                /\ Len(NewEvents(s)) <= 1
                /\ HasLatency(item) =>
                     NewEvents(s) = <<[name |-> "ping-result", server_id |-> sess[s].server_id,
                                       time_ms |-> parse_ping_line(item.text), line |-> n]>>
                /\ (~HasLatency(item) /\ HasTimeoutPhrase(item)) =>
                     NewEvents(s) = <<[name |-> "ping-timeout", server_id |-> sess[s].server_id,
                                       time_ms |-> NoneF64, line |-> n]>>
                /\ (~HasLatency(item) /\ ~HasTimeoutPhrase(item)) => NewEvents(s) = <<>>
                /\ sess'[s].reader = "read"]_vars
\* The reader has processed a line that holds a latency and a timeout phrase:
\* it emitted a ping-result with that latency and no ping-timeout for the
\* line, and it has also passed an unreadable line with no event.
C16_Witness ==
    \E s \in Sessions :
        /\ HasLatency(LineBoth) /\ HasTimeoutPhrase(LineBoth)
        /\ \E i \in DOMAIN sess[s].events :
             /\ sess[s].events[i].name = "ping-result"
             /\ sess[s].events[i].time_ms = parse_ping_line(LineBoth.text)
             /\ \A j \in DOMAIN sess[s].events :
                  sess[s].events[j].line = sess[s].events[i].line => j = i
        /\ sess[s].reader = "done"
        /\ Len(Samples(sess[s].events)) < sess[s].written

(***************************************************************************)
(* C17: when a reader thread exits, its registry removal removes only the  *)
(* entry of its own session: the removal step of the reader of session s   *)
(* changes no map entry that holds another session, so it never removes    *)
(* the entry of a newer session registered under the same server_id.       *)
(***************************************************************************)
C17_ReaderRemovesOwnEntry ==
    [][\A s \in Sessions :
         (sess[s].reader = "remove" /\ sess'[s].reader = "final")
            => \A k \in ServerIds :
                 processes'[k] # processes[k] => processes[k] = s]_vars

\* Caller c is at a lock() of the flag mutex of the session it is stopping.
CallerAtFlagLock(c) == call[c].pc \in {"set_flag", "sa_flag"}
\* Caller c is at a lock() of the registry mutex (line 149).
CallerAtRegistryLock(c) == call[c].pc = "insert"
\* The reader of session s is at a lock() of its flag mutex (lines 163, 189).
ReaderAtFlagLock(s) ==
    \/ sess[s].reader = "read" /\ sess[s].stdout # <<>>
    \/ sess[s].reader = "final"
\* The reader of session s is at the lock() of the registry mutex (line 184).
ReaderAtRegistryLock(s) == sess[s].reader = "remove"
\* No thread that holds a mutex is waiting for a mutex, but a command that
\* holds the registry mutex and waits for a flag mutex held by a reader:
\* the holder of a flag mutex is at the statement that drops it, the holder
\* of the registry mutex is a command inside its critical section, and no
\* reader holds a mutex while it waits for another.
NoCircularWait ==
    /\ lock \in Callers \cup {"free"}
    /\ \A s \in Sessions :
         /\ sess[s].flag_lock = "reader" => sess[s].reader \in {"check", "report"}
         /\ \A c \in Callers :
              sess[s].flag_lock = c
                  => (call[c].pc \in {"write_flag", "sa_write"} /\ call[c].process = s)
         /\ sess[s].flag_lock \in Callers \cup {"reader", "free"}
    /\ \A c \in Callers :
         /\ (lock = c /\ CallerAtFlagLock(c))
               => sess[call[c].process].flag_lock \in {"free", "reader"}
         /\ lock = c => ~CallerAtRegistryLock(c)

(***************************************************************************)
(* C18: the locking is deadlock-free: no state has threads waiting on each *)
(* other for the registry lock and a flag lock (a command takes a flag     *)
(* lock while holding the registry lock; a reader never holds both; the    *)
(* holder of a flag lock waits for nothing), and under fair scheduling     *)
(* every lock request of a command or of a reader is eventually granted:   *)
(* a thread at a lock() comes to hold the lock it asked for (a reader at   *)
(* the registry lock goes on to hold its flag lock), and the registry lock *)
(* is free again and again for the commands that lock it at their entry.   *)
(***************************************************************************)
C18_DeadlockFree ==
    /\ []NoCircularWait
    /\ (lock # "free") ~> (lock = "free")
    /\ \A c \in Callers :
         (CallerAtFlagLock(c) \/ CallerAtRegistryLock(c))
             ~> (call[c].pc \in {"write_flag", "sa_write", "thread"})
    /\ \A s \in Sessions :
         (ReaderAtFlagLock(s) \/ ReaderAtRegistryLock(s))
             ~> (sess[s].reader \in {"check", "report"})
\* A command holds the registry lock and waits for the flag lock of the
\* session it is stopping, which the reader of that session holds, while the
\* reader of another session waits for the registry lock.
C18_Witness ==
    \E c \in Callers, s, t \in Sessions :
        /\ lock = c
        /\ CallerAtFlagLock(c)
        /\ call[c].process = s
        /\ sess[s].flag_lock = "reader"
        /\ t # s
        /\ ReaderAtRegistryLock(t)

\* The ping-complete events among the events of a session.
IsComplete(e) == e.name = "ping-complete"
Completes(events) == SelectSeq(events, IsComplete)

(***************************************************************************)
(* C19: after the stop flag of a session has been set, its reader emits at *)
(* most one further sample event, for the single line whose flag check had *)
(* already passed, and never emits ping-complete: while the flag is true   *)
(* no line goes to processing, a step emits a sample only by ending the    *)
(* processing of the line in hand, and emits exactly one, and no step      *)
(* adds a ping-complete; and the flag is never set once the reader is past *)
(* its registry removal.                                                   *)
(***************************************************************************)
C19_AfterFlagSet ==
    [][\A s \in Sessions :
         /\ sess[s].stop_flag =>
              /\ sess[s].reader # "process" => sess'[s].reader # "process"
              /\ Samples(sess'[s].events) # Samples(sess[s].events)
                    => /\ sess[s].reader = "process" /\ sess'[s].reader # "process"
                       /\ Len(Samples(sess'[s].events)) = Len(Samples(sess[s].events)) + 1
              /\ Completes(sess'[s].events) = Completes(sess[s].events)
         /\ sess[s].reader \in {"final", "report", "done"}
               => sess'[s].stop_flag = sess[s].stop_flag]_vars
\* A stopped session whose reader has ended: it emitted one sample after
\* ping-stopped, left a later line of the pipe unprocessed and emitted no
\* ping-complete.
C19_Witness ==
    \E s \in Sessions :
        /\ sess[s].stop_flag
        /\ sess[s].reader = "done"
        /\ \E i \in DOMAIN sess[s].events :
             /\ sess[s].events[i].name = "ping-stopped"
             /\ i + 1 = Len(sess[s].events)
             /\ IsSample(sess[s].events[i + 1])
        /\ Len(Samples(sess[s].events)) < sess[s].written
        /\ Completes(sess[s].events) = <<>>

\* The pcs of the stop path of toggle_ping.
StopPathPcs == {"set_flag", "write_flag", "kill", "emit"}

\* A toggle_ping on its stop path holds the session it took out of the map
\* and has no return value yet; one at its return after the stop path
\* returns false.
C20_StopPathState ==
    \A c \in Callers :
        /\ (call[c].op = "toggle_ping" /\ call[c].pc \in StopPathPcs)
              => (call[c].process # NoSession /\ call[c].ret = "none" /\ lock = c)
        /\ (call[c].op = "toggle_ping" /\ call[c].pc = "return"
                /\ call[c].process # NoSession)
              => call[c].ret = "Ok(false)"
\* The entry of a toggle_ping for a server_id that has an entry goes to the
\* stop path and removes the entry, and the stop path leads only to its
\* return.
C20_StopPathStep ==
    \A c \in Callers :
        /\ (call[c].pc = "idle" /\ call'[c].op = "toggle_ping"
                /\ processes[call'[c].server_id] # NoSession)
              => /\ call'[c].pc = "set_flag"
                 /\ call'[c].process = processes[call'[c].server_id]
                 /\ processes'[call'[c].server_id] = NoSession
        /\ (call[c].op = "toggle_ping" /\ call[c].pc \in StopPathPcs)
              => call'[c].pc \in StopPathPcs \cup {"return"}

(***************************************************************************)
(* C20: the presence check runs before address validation: a toggle_ping   *)
(* call for a server_id that has a registry entry always takes the stop    *)
(* path (it removes the entry, returns false and never returns an error),  *)
(* whatever its address argument is, an address that fails the character   *)
(* whitelist included.                                                     *)
(***************************************************************************)
C20_PresenceCheckFirst == []C20_StopPathState /\ [][C20_StopPathStep]_vars
\* A toggle_ping called with an address that fails the whitelist is on the
\* stop path: it has removed the entry of its server_id and holds the live
\* session it found there.
C20_Witness ==
    \E c \in Callers :
        /\ call[c].op = "toggle_ping"
        /\ call[c].pc = "set_flag"
        /\ ~OnlyPermittedChars(call[c].address)
        /\ processes[call[c].server_id] = NoSession
        /\ LiveSession(call[c].process)

====
